---- MODULE Spec2Model ----
(***************************************************************************)
(* Model of the multi-source dataset pipeline of digit_recognizer          *)
(* (src/utils/multi_source_loader.py): MultiSourceDataLoader and the       *)
(* functions shuffle_dataset, load_combined_dataset and get_data_splits.   *)
(*                                                                         *)
(* An image is a record [src, dir, file, readLabel]: src, dir and file say *)
(* which file (or manifest line, or builtin sample) the pixels were read   *)
(* from, and readLabel is a ghost field: the label the Source Reader       *)
(* appended together with that image.  The program itself keeps images and *)
(* labels in two parallel arrays, and so does the model.                   *)
(*                                                                         *)
(* Fractions (weight, TRAINING_PERCENTAGE, VALIDATION_SPLIT, test_size)    *)
(* are pairs <<numerator, denominator>>.  For the values and sizes used    *)
(* here the float products of the code round exactly like the rationals.   *)
(* All images are taken to have the configured shape, so np.array and      *)
(* np.concatenate do not fail on ragged input.                             *)
(***************************************************************************)
EXTENDS Integers, Sequences, FiniteSets, TLC

\* ------------------------------------------------------------- bounds ----
MaxSources == 2      \* length of params.DATA_SOURCES
MaxFiles == 1        \* files per class directory of a folder_structure source
MaxLines == 2        \* lines of the labels.txt of a label_file source
MnistSize == 6       \* samples of the (scaled down) builtin corpus
MaxPermLen == 2      \* up to this length every permutation is drawn
MaxSplitN == 12      \* corpus size of the split-only specification
MaxShuffleN == 3     \* corpus size of the shuffle-only specification
MaxShuffleCalls == 3 \* calls of shuffle_dataset in the shuffle-only specification

\* params.NB_CLASSES (scaled down)
NB_CLASSES == 2

Classes == 0 .. (NB_CLASSES - 1)

\* ------------------------------------------------------------ helpers ----
Range(s) == {s[k] : k \in DOMAIN s}

Min2(a, b) == IF a <= b THEN a ELSE b

\* int(n * f) for a fraction f >= 0
FloorMul(n, f) == (n * f[1]) \div f[2]

\* math.ceil(n * f)
CeilMul(n, f) == (n * f[1] + f[2] - 1) \div f[2]

\* f < 1.0
LessThanOne(f) == f[1] < f[2]

\* array[indices] of numpy: indices are 0-based, sequences 1-based
Take(array, indices) == [k \in 1 .. Len(indices) |-> array[indices[k] + 1]]

\* array[:n]
Prefix(array, n) == SubSeq(array, 1, Min2(n, Len(array)))

\* np.concatenate(list_of_arrays, axis=0)
RECURSIVE Concatenate(_)
Concatenate(arrays) ==
    IF arrays = <<>> THEN <<>>
    ELSE Head(arrays) \o Concatenate(Tail(arrays))

\* all sequences over S of length <= n
BoundedSeq(S, n) == UNION {[1 .. m -> S] : m \in 0 .. n}

\* the sequences of k pairwise distinct indices of 0..n-1
DistinctIndexSeqs(n, k) ==
    {s \in [1 .. k -> 0 .. (n - 1)] : \A a, b \in 1 .. k : a # b => s[a] # s[b]}

\* What a numpy generator may return for permutation(n): every permutation of
\* 0..n-1 up to length MaxPermLen, and for longer ones the identity and the
\* reversal (a sample of the n! outcomes)
Identity(n) == [k \in 1 .. n |-> k - 1]

Reversal(n) == [k \in 1 .. n |-> n - k]

RngPermutations(n) ==
    IF n <= MaxPermLen THEN DistinctIndexSeqs(n, n) ELSE {Identity(n), Reversal(n)}

\* str.lower() on the dataset names of the model
Lower(name) == IF name = "MNIST" THEN "mnist" ELSE name

\* number of k with labels[k] = c: np.sum(labels == c)
CountLabel(labels, c) == Cardinality({k \in DOMAIN labels : labels[k] = c})

\* ------------------------------------------------------ Source Readers ----
EmptyPair == [raised |-> FALSE, images |-> <<>>, labels |-> <<>>]

Raised == [raised |-> TRUE, images |-> <<>>, labels |-> <<>>]

\* tf.keras.datasets.mnist.load_data(), train and test concatenated: the
\* builtin corpus, scaled down to MnistSize samples cycling through the classes
MnistLabels == [k \in 1 .. MnistSize |-> (k - 1) % NB_CLASSES]

MnistImages(src) ==
    [k \in 1 .. MnistSize |->
        [src |-> src, dir |-> 0, file |-> k, readLabel |-> MnistLabels[k]]]

load_builtin_dataset(src, dataset_name) ==
    IF Lower(dataset_name) = "mnist"
    THEN [raised |-> FALSE, images |-> MnistImages(src), labels |-> MnistLabels]
    ELSE EmptyPair

\* What a folder_structure path holds: whether it exists and, per class index,
\* whether the class directory exists and its listing, each file "ok", "badext"
\* (no image extension) or "corrupt" (cv2.imread returns None).
FileKinds == {"ok", "badext", "corrupt"}

ClassDirs ==
    {[exists |-> FALSE, files |-> <<>>]}
    \cup [exists : {TRUE}, files : BoundedSeq(FileKinds, MaxFiles)]

FolderDisks ==
    {[exists |-> FALSE, dirs |-> [c \in Classes |-> [exists |-> FALSE, files |-> <<>>]]]}
    \cup [exists : {TRUE}, dirs : [Classes -> ClassDirs]]

\* the inner loop over os.listdir(class_dir), appending to `acc`
RECURSIVE ReadClassDir(_, _, _, _, _)
ReadClassDir(src, class_label, files, k, acc) ==
    IF k > Len(files) THEN acc
    ELSE IF files[k] = "ok"
         THEN ReadClassDir(src, class_label, files, k + 1,
                  [acc EXCEPT
                      !.images = Append(@, [src |-> src, dir |-> class_label,
                                            file |-> k, readLabel |-> class_label]),
                      !.labels = Append(@, class_label)])
         ELSE ReadClassDir(src, class_label, files, k + 1, acc)

\* the outer loop over range(params.NB_CLASSES)
RECURSIVE ReadClasses(_, _, _, _)
ReadClasses(src, dirs, class_label, acc) ==
    IF class_label >= NB_CLASSES THEN acc
    ELSE IF ~dirs[class_label].exists
         THEN ReadClasses(src, dirs, class_label + 1, acc)
         ELSE ReadClasses(src, dirs, class_label + 1,
                  ReadClassDir(src, class_label, dirs[class_label].files, 1, acc))

load_folder_structure(src, d) ==
    IF ~d.exists THEN EmptyPair
    ELSE ReadClasses(src, d.dirs, 0, EmptyPair)

\* What a label_file path holds: whether labels.txt and images/ exist, and
\* the manifest lines.  A line has fewer than two tokens ("short"), a second
\* token int() rejects ("nonint"), or a filename and an integer label; the
\* file it names is "ok", "missing" or "corrupt".
ManifestLabels == 0 .. NB_CLASSES

ManifestLines ==
    {[tok |-> "short"], [tok |-> "nonint"]}
    \cup [tok : {"int"}, label : ManifestLabels, file : {"ok", "missing", "corrupt"}]

LabelFileDisks ==
    {d \in [hasLabelFile : BOOLEAN, hasImagesDir : BOOLEAN, lines : {<<>>}] :
        ~d.hasLabelFile \/ ~d.hasImagesDir}
    \cup [hasLabelFile : {TRUE}, hasImagesDir : {TRUE},
          lines : BoundedSeq(ManifestLines, MaxLines)]

\* the loop over the manifest lines; int(parts[1]) raises ValueError
RECURSIVE ReadLines(_, _, _, _)
ReadLines(src, lines, k, acc) ==
    IF k > Len(lines) THEN acc
    ELSE IF lines[k].tok = "short" THEN ReadLines(src, lines, k + 1, acc)
    ELSE IF lines[k].tok = "nonint" THEN Raised
    ELSE IF lines[k].file = "ok"
         THEN ReadLines(src, lines, k + 1,
                  [acc EXCEPT
                      !.images = Append(@, [src |-> src, dir |-> NB_CLASSES,
                                            file |-> k,
                                            readLabel |-> lines[k].label]),
                      !.labels = Append(@, lines[k].label)])
         ELSE ReadLines(src, lines, k + 1, acc)

load_label_file_dataset(src, d) ==
    IF ~d.hasLabelFile \/ ~d.hasImagesDir THEN EmptyPair
    ELSE ReadLines(src, d.lines, 1, EmptyPair)

NoDisk == [none |-> TRUE]

\* the file system contents a source of the given type may find at its path
DisksFor(type) ==
    IF type = "folder_structure" THEN FolderDisks
    ELSE IF type = "label_file" THEN LabelFileDisks
    ELSE {NoDisk}

KnownTypes == {"builtin", "folder_structure", "label_file"}

\* the dispatch on source_type of load_all_sources
ReadSource(src, source_config, d) ==
    IF source_config.type = "builtin" THEN load_builtin_dataset(src, source_config.name)
    ELSE IF source_config.type = "folder_structure" THEN load_folder_structure(src, d)
    ELSE load_label_file_dataset(src, d)

get_class_distribution(labels) ==
    [c \in {c \in Classes : CountLabel(labels, c) > 0} |-> CountLabel(labels, c)]

\* ------------------------------------------------------- configuration ----
SourceTypes == KnownTypes \cup {"other"}

Weights == {<<1, 2>>, <<1, 1>>}

\* the k-th entry of params.DATA_SOURCES: a builtin source is named after its
\* dataset, the others by position; a source nothing is read from has weight 1.0
SourceName(k) == IF k = 1 THEN "source_a" ELSE "source_b"

SourceConfigs(k) ==
    [name : {"MNIST"}, type : {"builtin"}, weight : Weights]
    \cup [name : {SourceName(k)}, type : {"folder_structure", "label_file"},
          weight : Weights]
    \cup {[name |-> "emnist", type |-> "builtin", weight |-> <<1, 1>>],
          [name |-> SourceName(k), type |-> "other", weight |-> <<1, 1>>]}

TrainingPercentages == {<<1, 2>>, <<1, 1>>}

ValidationSplits == {<<1, 5>>, <<1, 2>>}

Seeds == {7, 42}

\* test_size=0.2 of the first train_test_split call
TestSize == <<1, 5>>

\* -------------------------------------------------------------- state ----
VARIABLES
    DATA_SOURCES,         \* params.DATA_SOURCES
    TRAINING_PERCENTAGE,  \* params.TRAINING_PERCENTAGE
    VALIDATION_SPLIT,     \* params.VALIDATION_SPLIT
    SHUFFLE_SEED,         \* params.SHUFFLE_SEED
    all_images,           \* self.all_images: list of batches
    all_labels,           \* self.all_labels
    source_stats,         \* self.source_stats
    pc,                   \* position in get_data_splits
    srcIdx,               \* position of the loop over DATA_SOURCES
    disk,                 \* what the last Source Reader found at its path
    read,                 \* what the last Source Reader returned
    batch,                \* how the last loop iteration ended and what it appended
    fallback,             \* load_all_sources returned load_mnist_fallback()
    combined,             \* the pair load_all_sources returned
    mt,                   \* np.random after seed(s): (s, n) -> permutation(n)
    shuffleLog,           \* the calls of shuffle_dataset: seed, input, output
    shuffled,             \* the pair shuffle_dataset returned
    images,               \* images of get_data_splits
    labels,               \* labels of get_data_splits
    x_train_val, y_train_val, x_test, y_test,
    x_train, y_train, x_val, y_val

params == <<DATA_SOURCES, TRAINING_PERCENTAGE, VALIDATION_SPLIT, SHUFFLE_SEED>>

loader == <<all_images, all_labels, source_stats>>

iteration == <<srcIdx, disk, read, batch>>

shuffling == <<mt, shuffleLog, shuffled>>

corpus == <<images, labels>>

stage1 == <<x_train_val, y_train_val, x_test, y_test>>

stage2 == <<x_train, y_train, x_val, y_val>>

vars == <<params, loader, pc, iteration, fallback, combined, shuffling, corpus,
          stage1, stage2>>

NoPair == [images |-> <<>>, labels |-> <<>>]

NoBatch(how) == [status |-> how, images |-> <<>>, labels |-> <<>>]

\* MultiSourceDataLoader.__init__ and the locals of get_data_splits before
\* anything ran
Fresh ==
    /\ all_images = <<>> /\ all_labels = <<>>
    /\ source_stats = <<>>
    /\ srcIdx = 1
    /\ disk = NoDisk /\ read = EmptyPair /\ batch = NoBatch("none")
    /\ fallback = FALSE
    /\ combined = NoPair
    /\ mt = <<>> /\ shuffleLog = <<>> /\ shuffled = NoPair
    /\ images = <<>> /\ labels = <<>>
    /\ x_train_val = <<>> /\ y_train_val = <<>> /\ x_test = <<>> /\ y_test = <<>>
    /\ x_train = <<>> /\ y_train = <<>> /\ x_val = <<>> /\ y_val = <<>>

Init ==
    /\ \E n \in 0 .. MaxSources :
           DATA_SOURCES \in {s \in [1 .. n -> UNION {SourceConfigs(k) : k \in 1 .. n}] :
                                 \A k \in 1 .. n : s[k] \in SourceConfigs(k)}
    /\ TRAINING_PERCENTAGE \in TrainingPercentages
    /\ VALIDATION_SPLIT \in ValidationSplits
    /\ SHUFFLE_SEED = 42
    /\ pc = "load"
    /\ Fresh

\* ------------------------------------------------- load_all_sources ----
\* mutant of RandomChoice: replace=False forgotten, an index may come twice
RandomChoiceWithReplacement(n, sample_size) == [1 .. sample_size -> 0 .. (n - 1)]

\* np.random.choice(n, sample_size, replace=False) on the unseeded generator
RandomChoice(n, sample_size) ==
    {SubSeq(perm, 1, sample_size) : perm \in RngPermutations(n)}

\* mutant of ApplyWeight: the labels are cut to the sample size, not indexed
ApplyWeightLabelsSliced(imgs, lbls, indices) ==
    [images |-> Take(imgs, indices), labels |-> Prefix(lbls, Len(indices))]

\* "Apply sampling weight": the (images, labels) pair after lines 43-47, for
\* drawn indices
ApplyWeight(imgs, lbls, indices) ==
    [images |-> Take(imgs, indices), labels |-> Take(lbls, indices)]

\* self.source_stats[source_name] = {...}
PutStats(stats, name, lbls) ==
    [n \in DOMAIN stats \cup {name} |->
        IF n = name
        THEN [count |-> Len(lbls), class_distribution |-> get_class_distribution(lbls)]
        ELSE stats[n]]

\* the end of one loop iteration: statistics and the two appends
Contribute(name, b) ==
    /\ source_stats' = PutStats(source_stats, name, b.labels)
    /\ all_images' = Append(all_images, b.images)
    /\ all_labels' = Append(all_labels, b.labels)
    /\ batch' = [status |-> "appended", images |-> b.images, labels |-> b.labels]

\* one iteration of `for source_config in params.DATA_SOURCES`
LoadSource ==
    /\ pc = "load"
    /\ srcIdx <= Len(DATA_SOURCES)
    /\ LET source_config == DATA_SOURCES[srcIdx] IN
       IF source_config.type \notin KnownTypes
       THEN /\ srcIdx' = srcIdx + 1
            /\ disk' = NoDisk /\ read' = EmptyPair /\ batch' = NoBatch("unknown_type")
            /\ UNCHANGED <<loader, pc>>
       ELSE \E d \in DisksFor(source_config.type) :
            LET r == ReadSource(srcIdx, source_config, d)
                n == Len(r.images)
            IN  /\ disk' = d
                /\ read' = r
                /\ IF r.raised
                   THEN /\ pc' = "error"
                        /\ batch' = NoBatch("raised")
                        /\ UNCHANGED <<loader, srcIdx>>
                   ELSE /\ pc' = pc
                        /\ srcIdx' = srcIdx + 1
                        /\ IF n = 0
                           THEN batch' = NoBatch("skipped") /\ UNCHANGED loader
                           ELSE IF LessThanOne(source_config.weight) /\ n > 0
                           THEN \E indices \in
                                    RandomChoice(n, FloorMul(n, source_config.weight)) :
                                    Contribute(source_config.name,
                                               ApplyWeight(r.images, r.labels, indices))
                           ELSE Contribute(source_config.name,
                                           [images |-> r.images, labels |-> r.labels])
    /\ UNCHANGED <<params, fallback, combined, shuffling, corpus, stage1, stage2>>

\* the fallback corpus is read for no source: src 0
load_mnist_fallback == load_builtin_dataset(0, "mnist")

\* mutant of LoadResult: the batches are concatenated last source first
LoadResultLastFirst(imgs, lbls) ==
    IF Len(imgs) = 0
    THEN [images |-> load_mnist_fallback.images, labels |-> load_mnist_fallback.labels]
    ELSE [images |-> Concatenate([k \in 1 .. Len(imgs) |-> imgs[Len(imgs) + 1 - k]]),
          labels |-> Concatenate([k \in 1 .. Len(lbls) |-> lbls[Len(lbls) + 1 - k]])]

\* what load_all_sources returns after the loop
LoadResult(imgs, lbls) ==
    IF Len(imgs) = 0
    THEN [images |-> load_mnist_fallback.images, labels |-> load_mnist_fallback.labels]
    ELSE [images |-> Concatenate(imgs), labels |-> Concatenate(lbls)]

\* the end of load_all_sources: fallback or concatenation, and the return
\* into load_combined_dataset (the locals of the loop go out of scope)
FinishLoad ==
    /\ pc = "load"
    /\ srcIdx > Len(DATA_SOURCES)
    /\ fallback' = (Len(all_images) = 0)
    /\ combined' = LoadResult(all_images, all_labels)
    /\ images' = combined'.images
    /\ labels' = combined'.labels
    /\ pc' = "stats"
    /\ disk' = NoDisk /\ read' = EmptyPair /\ batch' = NoBatch("none")
    /\ UNCHANGED <<params, loader, srcIdx, shuffling, stage1, stage2>>

\* print_detailed_stats only prints
print_detailed_stats ==
    /\ pc = "stats"
    /\ pc' = "shuffle"
    /\ UNCHANGED <<params, loader, iteration, fallback, combined, shuffling, corpus,
                   stage1, stage2>>

\* ---------------------------------------------------- shuffle_dataset ----
\* np.random.seed(seed); np.random.permutation(n): the generator is reset by
\* the seed, so the permutation is one fixed function of (seed, n).  It is
\* drawn when first needed and remembered in mt.
\* mutant of SeededPermutations: np.random.seed(seed) forgotten
UnseededPermutations(seed, n) == RngPermutations(n)

SeededPermutations(seed, n) ==
    IF <<seed, n>> \in DOMAIN mt THEN {mt[<<seed, n>>]} ELSE RngPermutations(n)

Remember(seed, n, indices) ==
    [key \in DOMAIN mt \cup {<<seed, n>>} |->
        IF key = <<seed, n>> THEN indices ELSE mt[key]]

\* return images[indices], labels[indices]
shuffle_dataset(imgs, lbls, indices) ==
    [images |-> Take(imgs, indices), labels |-> Take(lbls, indices)]

\* one call shuffle_dataset(imgs, lbls, seed)
ShuffleCall(imgs, lbls, seed) ==
    \E indices \in SeededPermutations(seed, Len(imgs)) :
        /\ mt' = Remember(seed, Len(imgs), indices)
        /\ shuffled' = shuffle_dataset(imgs, lbls, indices)
        /\ shuffleLog' = Append(shuffleLog, [seed |-> seed, output |-> shuffled'])
        /\ images' = shuffled'.images
        /\ labels' = shuffled'.labels

\* load_combined_dataset: images, labels = shuffle_dataset(images, labels)
Shuffle ==
    /\ pc = "shuffle"
    /\ ShuffleCall(images, labels, SHUFFLE_SEED)
    /\ pc' = "truncate"
    /\ UNCHANGED <<params, loader, iteration, fallback, combined, stage1, stage2>>

\* ---------------------------------------------------- get_data_splits ----
\* mutant of Truncated: the last training_samples samples are kept
TruncatedTail(array, fraction) ==
    SubSeq(array, Len(array) - FloorMul(Len(array), fraction) + 1, Len(array))

\* training_samples = int(total_samples * TRAINING_PERCENTAGE); [:training_samples]
Truncated(array, fraction) == Prefix(array, FloorMul(Len(array), fraction))

Truncate ==
    /\ pc = "truncate"
    /\ images' = Truncated(images, TRAINING_PERCENTAGE)
    /\ labels' = Truncated(labels, TRAINING_PERCENTAGE)
    /\ pc' = "split1"
    /\ UNCHANGED <<params, loader, iteration, fallback, combined, shuffling, stage1,
                   stage2>>

\* ----------------------------- sklearn.model_selection.train_test_split ----
\* train_test_split(x, y, test_size=f, shuffle=True, stratify=y), as
\* StratifiedShuffleSplit computes it.  random_state seeds a generator of its
\* own; what it draws is left open here (any outcome of RngPermutations and
\* any way of breaking ties), so a property of every outcome is one of the
\* outcome the seed gives.
RECURSIVE SumOver(_, _)
SumOver(f, S) ==
    IF S = {} THEN 0
    ELSE LET c == CHOOSE c \in S : TRUE IN f[c] + SumOver(f, S \ {c})

\* np.bincount(y_indices), indexed by the classes np.unique(y) found
ClassCounts(y) == [c \in Range(y) |-> CountLabel(y, c)]

\* _approximate_mode(class_counts, n_draws, rng): floor of the proportional
\* share class_counts[c] * n_draws / sum, then one more for the classes of
\* largest remainder until n_draws are given out, ties broken by rng.choice.
\* Shares are compared by their numerators over the common denominator.
ApproximateMode(class_counts, n_draws) ==
    LET K == DOMAIN class_counts
        total == SumOver(class_counts, K)
        floored == [c \in K |-> (class_counts[c] * n_draws) \div total]
        remainder == [c \in K |-> (class_counts[c] * n_draws) % total]
        need_to_add == n_draws - SumOver(floored, K)
    IN  {[c \in K |-> floored[c] + (IF c \in A THEN 1 ELSE 0)] :
            A \in {B \in SUBSET K :
                      /\ Cardinality(B) = need_to_add
                      /\ \A a \in B, b \in K \ B : remainder[a] >= remainder[b]}}

\* the ascending sequence of the elements of a finite set of integers
RECURSIVE Sorted(_)
Sorted(S) ==
    IF S = {} THEN <<>>
    ELSE LET m == CHOOSE m \in S : \A o \in S : m <= o IN <<m>> \o Sorted(S \ {m})

\* class_indices[c]: the 0-based positions of class c, ascending
ClassIndices(y, c) == Sorted({k - 1 : k \in {j \in DOMAIN y : y[j] = c}})

\* the loop over the classes of _iter_indices: a permutation of each class's
\* indices, its first n_i[c] to train, the next t_i[c] to test
RECURSIVE ClassDraws(_, _, _, _)
ClassDraws(y, classes, n_i, t_i) ==
    IF classes = <<>> THEN {[train |-> <<>>, test |-> <<>>]}
    ELSE LET c == Head(classes)
             class_indices == ClassIndices(y, c)
         IN  {[train |-> SubSeq(Take(class_indices, permutation), 1, n_i[c])
                             \o rest.train,
               test |-> SubSeq(Take(class_indices, permutation),
                               n_i[c] + 1, n_i[c] + t_i[c]) \o rest.test] :
                 permutation \in RngPermutations(Len(class_indices)),
                 rest \in ClassDraws(y, Tail(classes), n_i, t_i)}

\* mutant of StratifiedIndices: stratify=labels forgotten, a plain shuffle split
UnstratifiedIndices(y, n_train, n_test) ==
    {[train |-> SubSeq(permutation, n_test + 1, n_test + n_train),
      test |-> SubSeq(permutation, 1, n_test)] :
        permutation \in RngPermutations(Len(y))}

\* the (train, test) index arrays StratifiedShuffleSplit may yield
StratifiedIndices(y, n_train, n_test) ==
    LET class_counts == ClassCounts(y)
        classes == Sorted(Range(y))
    IN  UNION {
         UNION {
          UNION {
            {[train |-> Take(draw.train, p), test |-> Take(draw.test, q)] :
                p \in RngPermutations(n_train), q \in RngPermutations(n_test)} :
            draw \in ClassDraws(y, classes, n_i, t_i)} :
          t_i \in ApproximateMode([c \in DOMAIN class_counts |->
                                      class_counts[c] - n_i[c]], n_test)} :
         n_i \in ApproximateMode(class_counts, n_train)}

\* the ValueErrors of _validate_shuffle_split and StratifiedShuffleSplit
SplitRaises(y, test_size) ==
    LET n_samples == Len(y)
        n_test == CeilMul(n_samples, test_size)
        n_train == n_samples - n_test
        class_counts == ClassCounts(y)
        n_classes == Cardinality(DOMAIN class_counts)
    IN  \/ n_train = 0
        \/ \E c \in DOMAIN class_counts : class_counts[c] < 2
        \/ n_train < n_classes
        \/ n_test < n_classes

\* the outcomes of train_test_split(x, y, test_size=..., stratify=y) when it
\* does not raise: x_train, x_test, y_train, y_test
train_test_split(x, y, test_size) ==
    LET n_test == CeilMul(Len(y), test_size)
        n_train == Len(y) - n_test
    IN  {[x_train |-> Take(x, ix.train), x_test |-> Take(x, ix.test),
          y_train |-> Take(y, ix.train), y_test |-> Take(y, ix.test)] :
            ix \in StratifiedIndices(y, n_train, n_test)}

\* "Split into train+val and test"
SplitTest ==
    /\ pc = "split1"
    /\ IF SplitRaises(labels, TestSize)
       THEN pc' = "error" /\ UNCHANGED stage1
       ELSE \E r \in train_test_split(images, labels, TestSize) :
               /\ x_train_val' = r.x_train /\ y_train_val' = r.y_train
               /\ x_test' = r.x_test /\ y_test' = r.y_test
               /\ pc' = "split2"
    /\ UNCHANGED <<params, loader, iteration, fallback, combined, shuffling, corpus,
                   stage2>>

\* mutant of SplitVal: the second split is given the whole corpus again
SplitValWholeCorpus ==
    /\ pc = "split2"
    /\ IF SplitRaises(labels, VALIDATION_SPLIT)
       THEN pc' = "error" /\ UNCHANGED stage2
       ELSE \E r \in train_test_split(images, labels, VALIDATION_SPLIT) :
               /\ x_train' = r.x_train /\ y_train' = r.y_train
               /\ x_val' = r.x_test /\ y_val' = r.y_test
               /\ pc' = "done"
    /\ UNCHANGED <<params, loader, iteration, fallback, combined, shuffling, corpus,
                   stage1>>

\* "Further split train+val into train and val", and the return
SplitVal ==
    /\ pc = "split2"
    /\ IF SplitRaises(y_train_val, VALIDATION_SPLIT)
       THEN pc' = "error" /\ UNCHANGED stage2
       ELSE \E r \in train_test_split(x_train_val, y_train_val, VALIDATION_SPLIT) :
               /\ x_train' = r.x_train /\ y_train' = r.y_train
               /\ x_val' = r.x_test /\ y_val' = r.y_test
               /\ pc' = "done"
    /\ UNCHANGED <<params, loader, iteration, fallback, combined, shuffling, corpus,
                   stage1>>

Next ==
    \/ LoadSource
    \/ FinishLoad
    \/ print_detailed_stats
    \/ Shuffle
    \/ Truncate
    \/ SplitTest
    \/ SplitVal

Spec == Init /\ [][Next]_vars

\* ------------------------------------------- the split on larger corpora ----
\* get_data_splits at the entry of the first train_test_split, after one
\* folder_structure source of weight 1.0 holding counts[c] readable files of
\* class c was loaded, shuffled and (TRAINING_PERCENTAGE = 1.0) kept whole.
SplitFractions == {<<1, 10>>, <<1, 5>>, <<1, 2>>}

FolderOf(counts) ==
    [exists |-> TRUE,
     dirs |-> [c \in Classes |->
                 [exists |-> TRUE, files |-> [k \in 1 .. counts[c] |-> "ok"]]]]

InitSplit ==
    \E counts \in [Classes -> 0 .. MaxSplitN], v \in SplitFractions :
      /\ SumOver(counts, Classes) \in 1 .. MaxSplitN
      /\ \E indices \in RngPermutations(SumOver(counts, Classes)) :
          LET r == load_folder_structure(1, FolderOf(counts))
              sh == shuffle_dataset(r.images, r.labels, indices)
          IN  /\ DATA_SOURCES = <<[name |-> "source_a", type |-> "folder_structure",
                                   weight |-> <<1, 1>>]>>
              /\ TRAINING_PERCENTAGE = <<1, 1>>
              /\ VALIDATION_SPLIT = v
              /\ SHUFFLE_SEED = 42
              /\ all_images = <<r.images>> /\ all_labels = <<r.labels>>
              /\ source_stats = PutStats(<<>>, "source_a", r.labels)
              /\ srcIdx = 2
              /\ disk = NoDisk /\ read = EmptyPair /\ batch = NoBatch("none")
              /\ fallback = FALSE
              /\ combined = [images |-> r.images, labels |-> r.labels]
              /\ mt = [key \in {<<42, Len(r.images)>>} |-> indices]
              /\ shuffled = sh
              /\ shuffleLog = <<[seed |-> 42, output |-> sh]>>
              /\ images = sh.images /\ labels = sh.labels
              /\ pc = "split1"
              /\ x_train_val = <<>> /\ y_train_val = <<>>
              /\ x_test = <<>> /\ y_test = <<>>
              /\ x_train = <<>> /\ y_train = <<>> /\ x_val = <<>> /\ y_val = <<>>

NextSplit ==
    \/ SplitTest
    \/ SplitVal

SplitSpec == InitSplit /\ [][NextSplit]_vars

\* ------------------------------------------- shuffle_dataset on its own ----
\* shuffle_dataset called again and again, with any seed, on the corpus one
\* label_file source of weight 1.0 gave
ManifestOf(lbls) ==
    [hasLabelFile |-> TRUE, hasImagesDir |-> TRUE,
     lines |-> [k \in 1 .. Len(lbls) |->
                  [tok |-> "int", label |-> lbls[k], file |-> "ok"]]]

InitShuffle ==
    \E lbls \in BoundedSeq(Classes, MaxShuffleN) :
        LET r == load_label_file_dataset(1, ManifestOf(lbls))
        IN  /\ Len(lbls) > 0
            /\ DATA_SOURCES = <<[name |-> "source_a", type |-> "label_file",
                                 weight |-> <<1, 1>>]>>
            /\ TRAINING_PERCENTAGE = <<1, 1>>
            /\ VALIDATION_SPLIT = <<1, 5>>
            /\ SHUFFLE_SEED = 42
            /\ all_images = <<r.images>> /\ all_labels = <<r.labels>>
            /\ source_stats = PutStats(<<>>, "source_a", r.labels)
            /\ srcIdx = 2
            /\ disk = NoDisk /\ read = EmptyPair /\ batch = NoBatch("none")
            /\ fallback = FALSE
            /\ combined = [images |-> r.images, labels |-> r.labels]
            /\ mt = <<>> /\ shuffleLog = <<>> /\ shuffled = NoPair
            /\ images = r.images /\ labels = r.labels
            /\ pc = "shuffle"
            /\ x_train_val = <<>> /\ y_train_val = <<>>
            /\ x_test = <<>> /\ y_test = <<>>
            /\ x_train = <<>> /\ y_train = <<>> /\ x_val = <<>> /\ y_val = <<>>

\* shuffle_dataset(combined.images, combined.labels, seed) for any seed
ShuffleAgain ==
    /\ pc = "shuffle"
    /\ Len(shuffleLog) < MaxShuffleCalls
    /\ \E seed \in Seeds : ShuffleCall(combined.images, combined.labels, seed)
    /\ UNCHANGED <<params, loader, pc, iteration, fallback, combined, stage1, stage2>>

NextShuffle == ShuffleAgain

ShuffleSpec == InitShuffle /\ [][NextShuffle]_vars

\* =============================================================== claims ====
\* the label at index k is the one read together with the image at index k
Paired(imgs, lbls) ==
    /\ Len(imgs) = Len(lbls)
    /\ \A k \in DOMAIN imgs : lbls[k] = imgs[k].readLabel

\* ------------------------------------ one loader, load_all_sources again ----
\* the batches one MultiSourceDataLoader may hold before it is called again
MaxRetained == 2

\* one configured source; the loader is fresh and load_all_sources was entered
InitReload ==
    /\ Init
    /\ Len(DATA_SOURCES) = 1
    /\ TRAINING_PERCENTAGE = <<1, 1>>
    /\ VALIDATION_SPLIT = <<1, 5>>

\* load_all_sources is called again on the same MultiSourceDataLoader, after
\* it returned or after print_detailed_stats: the loop starts over at the
\* first source.  __init__ is not run again and load_all_sources assigns none
\* of self.all_images, self.all_labels and self.source_stats before the loop.
LoadAgain ==
    /\ pc \in {"stats", "shuffle"}
    /\ Len(all_images) < MaxRetained
    /\ pc' = "load"
    /\ srcIdx' = 1
    /\ UNCHANGED <<params, loader, disk, read, batch, fallback, combined, shuffling,
                   corpus, stage1, stage2>>

NextReload ==
    \/ LoadSource
    \/ FinishLoad
    \/ print_detailed_stats
    \/ LoadAgain

ReloadSpec == InitReload /\ [][NextReload]_vars

\* C1: at every stage (reader result, subsampled batch, accumulated batches,
\* combined corpus, shuffled corpus, truncated corpus, train+val, train,
\* validation, test) images and labels have the same length and the label at
\* index k is the label read together with the image at index k.
C1_PairingKept ==
    /\ Paired(read.images, read.labels)
    /\ Paired(batch.images, batch.labels)
    /\ Len(all_images) = Len(all_labels)
    /\ \A k \in DOMAIN all_images : Paired(all_images[k], all_labels[k])
    /\ Paired(combined.images, combined.labels)
    /\ Paired(shuffled.images, shuffled.labels)
    /\ Paired(images, labels)
    /\ Paired(x_train_val, y_train_val)
    /\ Paired(x_test, y_test)
    /\ Paired(x_train, y_train)
    /\ Paired(x_val, y_val)

\* get_data_splits returned three non-empty partitions of a two-class corpus
\* that two sources contributed to and the shuffle reordered
C1_Witness ==
    /\ pc = "done"
    /\ Len(all_images) = 2
    /\ Cardinality(Range(labels)) = 2
    /\ shuffled.images # combined.images
    /\ Len(x_train) > 0 /\ Len(x_val) > 0 /\ Len(x_test) > 0

\* C2: when get_data_splits returns, train, validation and test are pairwise
\* disjoint, together they are the truncated corpus, and their sizes add up
\* to its size.
C2_PartitionsDisjointCover ==
    pc = "done" =>
        LET T == Range(x_train)
            V == Range(x_val)
            E == Range(x_test)
        IN  /\ T \cap V = {} /\ T \cap E = {} /\ V \cap E = {}
            /\ T \cup V \cup E = Range(images)
            /\ Len(x_train) + Len(x_val) + Len(x_test) = Len(images)
            /\ Cardinality(Range(images)) = Len(images)

\* a returned split of a two-class corpus of at least 8 samples
C2_Witness ==
    /\ pc = "done"
    /\ Len(images) >= 8
    /\ Cardinality(Range(labels)) = 2
    /\ Len(x_val) >= 2 /\ Len(x_test) >= 2

\* the (image, label) pairs of a corpus, and how often one occurs
Pairs(c) == [k \in DOMAIN c.images |-> <<c.images[k], c.labels[k]>>]

Occurrences(seq, x) == Cardinality({k \in DOMAIN seq : seq[k] = x})

SameMultiset(a, b) ==
    /\ Len(a) = Len(b)
    /\ \A x \in Range(a) \cup Range(b) : Occurrences(a, x) = Occurrences(b, x)

\* C3: every call of shuffle_dataset returns the input with one permutation
\* of 0..n-1 applied to both images and labels, so the multiset of (image,
\* label) pairs is kept, and two calls with the same seed on the same input
\* return the same order.
C3_ShuffleOnePermutation ==
    \A k \in DOMAIN shuffleLog :
        LET out == shuffleLog[k].output
            n == Len(combined.images)
        IN  /\ \E perm \in DistinctIndexSeqs(n, n) :
                   /\ out.images = Take(combined.images, perm)
                   /\ out.labels = Take(combined.labels, perm)
            /\ SameMultiset(Pairs(combined), Pairs(out))
            /\ \A j \in DOMAIN shuffleLog :
                   shuffleLog[j].seed = shuffleLog[k].seed
                       => shuffleLog[j].output = out

\* three calls on a corpus with both labels: the first and the third with one
\* seed, the second with another seed and another order, and the first not the
\* input order
C3_Witness ==
    /\ Len(shuffleLog) = 3
    /\ shuffleLog[1].seed = shuffleLog[3].seed
    /\ shuffleLog[1].seed # shuffleLog[2].seed
    /\ shuffleLog[1].output # shuffleLog[2].output
    /\ shuffleLog[1].output.images # combined.images
    /\ Cardinality(Range(combined.labels)) = 2

\* C4: a source with weight w < 1.0 whose reader returned n > 0 samples
\* contributes exactly floor(n * w) samples, taken at pairwise distinct
\* indices of the reader's result; a source with weight 1.0 contributes all n.
C4_SubsampleSize ==
    (pc = "load" /\ batch.status = "appended") =>
        LET w == DATA_SOURCES[srcIdx - 1].weight
            n == Len(read.images)
            size == (n * w[1]) \div w[2]
            contributed == all_images[Len(all_images)]
        IN  /\ contributed = batch.images
            /\ all_labels[Len(all_labels)] = batch.labels
            /\ IF w[1] < w[2]
               THEN /\ Len(contributed) = size
                    /\ \E indices \in DistinctIndexSeqs(n, size) :
                           /\ batch.images = Take(read.images, indices)
                           /\ batch.labels = Take(read.labels, indices)
               ELSE /\ batch.images = read.images
                    /\ batch.labels = read.labels

\* a source of weight < 1.0 contributed at least two samples
C4_Witness ==
    /\ pc = "load"
    /\ batch.status = "appended"
    /\ DATA_SOURCES[srcIdx - 1].weight[1] < DATA_SOURCES[srcIdx - 1].weight[2]
    /\ Len(batch.images) >= 2
    /\ Len(batch.images) < Len(read.images)

\* C5: load_all_sources returns the builtin fallback corpus whenever no
\* source contributed a sample (a source subsampled down to zero samples
\* included), so a corpus returned on the non-fallback path holds at least
\* one sample.
C5_FallbackWhenNothingContributed ==
    pc = "stats" =>
        /\ (\A k \in DOMAIN all_images : Len(all_images[k]) = 0) => fallback
        /\ ~fallback => Len(combined.images) >= 1

\* the line numbers of the well-formed manifest lines whose image exists and
\* decodes
GoodLines(lines) ==
    Sorted({k \in DOMAIN lines : lines[k].tok = "int" /\ lines[k].file = "ok"})

\* C6: for a label_file source a malformed manifest line (fewer than two
\* tokens, or a second token that is no integer) and a line naming a missing
\* or undecodable image add no pair; load_label_file_dataset returns normally
\* with exactly the pairs of the other lines, and load_all_sources goes on.
C6_SoftFailuresNeverAbort ==
    (batch.status # "none" /\ "lines" \in DOMAIN disk) =>
        LET good == GoodLines(disk.lines) IN
        /\ ~read.raised
        /\ pc = "load"
        /\ Len(read.images) = Len(good)
        /\ read.labels = [j \in 1 .. Len(good) |-> disk.lines[good[j]].label]
        /\ \A j \in 1 .. Len(good) : read.images[j].file = good[j]

\* C7: whenever get_data_splits returns, every class present in the truncated
\* corpus is present in train, in validation and in test (a class too small
\* for that makes one of the two split stages raise).
C7_NoClassMissing ==
    pc = "done" =>
        \A c \in Range(labels) :
            c \in Range(y_train) /\ c \in Range(y_val) /\ c \in Range(y_test)

Abs(x) == IF x < 0 THEN 0 - x ELSE x

\* C8 as stated: for every class of the truncated corpus the numbers of its
\* samples in test, validation and train differ by less than one sample from
\* class_count * 0.2, and from the shares v and 1 - v of its count in
\* train+val.
C8_NominalShares ==
    pc = "done" =>
        \A c \in Range(labels) :
            LET v == VALIDATION_SPLIT
                in_train_val == CountLabel(y_train_val, c)
            IN  /\ Abs(TestSize[2] * CountLabel(y_test, c)
                       - TestSize[1] * CountLabel(labels, c)) < TestSize[2]
                /\ Abs(v[2] * CountLabel(y_val, c) - v[1] * in_train_val) < v[2]
                /\ Abs(v[2] * CountLabel(y_train, c) - (v[2] - v[1]) * in_train_val)
                       < v[2]

\* C8 as amended: the partition sizes are len(test) = ceil(0.2 * n) and
\* len(val) = ceil(v * len(train+val)), and for every class of the truncated
\* corpus the numbers of its samples in test and in train+val differ by less
\* than one sample from class_count * len(partition) / n, and the numbers in
\* validation and in train by less than one sample from its count in
\* train+val times len(partition) / len(train+val).
C8_ProportionalToPartitionSize ==
    pc = "done" =>
        LET n == Len(labels)
            m == Len(y_train_val)
        IN  /\ Len(y_test) = (n * TestSize[1] + TestSize[2] - 1) \div TestSize[2]
            /\ Len(y_val) = (m * VALIDATION_SPLIT[1] + VALIDATION_SPLIT[2] - 1)
                                \div VALIDATION_SPLIT[2]
            /\ \A c \in Range(labels) :
                LET count == CountLabel(labels, c)
                    in_train_val == CountLabel(y_train_val, c)
                IN  /\ Abs(n * CountLabel(y_test, c) - count * Len(y_test)) < n
                    /\ Abs(n * in_train_val - count * m) < n
                    /\ Abs(m * CountLabel(y_val, c) - in_train_val * Len(y_val)) < m
                    /\ Abs(m * CountLabel(y_train, c) - in_train_val * Len(y_train)) < m

\* a returned split of a two-class corpus whose size is no multiple of 5
C8_Witness ==
    /\ pc = "done"
    /\ Cardinality(Range(labels)) = 2
    /\ Len(labels) % 5 # 0
    /\ Len(labels) >= 8
    /\ CountLabel(labels, 0) # CountLabel(labels, 1)

\* C9: get_data_splits keeps exactly floor(total * TRAINING_PERCENTAGE)
\* samples, and they are the first samples of the shuffled corpus in their
\* shuffled order.
C9_TruncationIsPrefix ==
    (pc \in {"split1", "split2", "done"} \/ (pc = "error" /\ shuffleLog # <<>>)) =>
        LET total == Len(shuffled.images)
            kept == (total * TRAINING_PERCENTAGE[1]) \div TRAINING_PERCENTAGE[2]
        IN  /\ Len(images) = kept
            /\ Len(labels) = kept
            /\ \A k \in 1 .. kept :
                   images[k] = shuffled.images[k] /\ labels[k] = shuffled.labels[k]

\* half of a shuffled corpus of odd size was kept
C9_Witness ==
    /\ pc = "split1"
    /\ TRAINING_PERCENTAGE = <<1, 2>>
    /\ Len(shuffled.images) = 5
    /\ Len(images) = 2
    /\ shuffled.images # combined.images

\* the order in which one Source Reader returns two of its images
ReaderBefore(a, b) == a.dir < b.dir \/ (a.dir = b.dir /\ a.file < b.file)

\* C10 as stated: on the non-fallback path every sample of an earlier source
\* precedes every sample of a later one, and within one source the samples
\* keep the reader's order, also when the source was subsampled.
C10_ReaderOrderKept ==
    (pc = "stats" /\ ~fallback) =>
        \A a, b \in DOMAIN combined.images :
            a < b =>
                LET x == combined.images[a]
                    y == combined.images[b]
                IN  x.src < y.src \/ (x.src = y.src /\ ReaderBefore(x, y))

\* C10 as amended: on the non-fallback path the combined corpus is the
\* concatenation of the accumulated batches in declaration order; every
\* sample of an earlier source precedes every sample of a later one, and the
\* samples of a source of weight 1.0 keep the reader's order (a subsampled
\* source keeps the order in which its indices were drawn).
C10_DeclarationOrder ==
    (pc = "stats" /\ ~fallback) =>
        /\ combined.images = Concatenate(all_images)
        /\ combined.labels = Concatenate(all_labels)
        /\ \A a, b \in DOMAIN combined.images :
               a < b =>
                   LET x == combined.images[a]
                       y == combined.images[b]
                   IN  \/ x.src < y.src
                       \/ /\ x.src = y.src
                          /\ DATA_SOURCES[x.src].weight = <<1, 1>> => ReaderBefore(x, y)

\* two sources contributed at least two samples each, the first subsampled and
\* the second not
C10_Witness ==
    /\ pc = "stats"
    /\ ~fallback
    /\ Len(all_images) = 2
    /\ Len(all_images[1]) >= 2 /\ Len(all_images[2]) >= 2
    /\ DATA_SOURCES[1].weight = <<1, 2>>
    /\ DATA_SOURCES[2].weight = <<1, 1>>

\* C11: every label a Source Reader returns, and so every label of the
\* accumulated batches, of the combined corpus and of the three partitions,
\* is an integer in [0, NB_CLASSES); a label_file manifest line whose label
\* is outside that range adds no sample.
C11_LabelsInRange ==
    \A l \in Range(read.labels) \cup Range(batch.labels)
              \cup UNION {Range(all_labels[k]) : k \in DOMAIN all_labels}
              \cup Range(combined.labels) \cup Range(labels)
              \cup Range(y_train) \cup Range(y_val) \cup Range(y_test) :
        l \in Classes

\* C12: no image or label data is retained across calls: the combined corpus
\* load_all_sources returns, however often it was called on the loader,
\* holds at most one batch per configured source and holds no sample twice,
\* as after a first call on a fresh loader.
C12_NothingRetained ==
    pc \in {"stats", "shuffle"} =>
        /\ Len(all_images) <= Len(DATA_SOURCES)
        /\ \A a, b \in DOMAIN combined.images :
               a # b => combined.images[a] # combined.images[b]

====
